---- MODULE Spec2Model ----
(***************************************************************************)
(* Documentation Index MCP server (mcp-servers/docs-index/server.py).      *)
(*                                                                         *)
(* The server holds no state of its own: each of its two handlers,         *)
(* list_resources and read_resource, loads docs-index.json and answers     *)
(* from what it loaded.  Strings are modelled as sequences of one-         *)
(* character strings so that str.replace, str.split, str.join and the      *)
(* f-strings of the handlers are computed character by character.          *)
(***************************************************************************)
EXTENDS Integers, Sequences, FiniteSets, TLC

\* ------------------------------------------------------------------------
\* Bounds of the model
\* ------------------------------------------------------------------------
MaxItems == 2       \* entries in one category of the source document
NumCalls == 2       \* handler invocations in flight at once (SpecConc)

\* ------------------------------------------------------------------------
\* Python string operations used by the handlers
\* ------------------------------------------------------------------------
RECURSIVE Replace(_, _)
\* str.replace(old, ""): every non-overlapping occurrence of old, scanning
\* from the left, is removed.
Replace(s, old) ==
    IF Len(s) < Len(old) THEN s
    ELSE IF SubSeq(s, 1, Len(old)) = old
         THEN Replace(SubSeq(s, Len(old) + 1, Len(s)), old)
         ELSE <<Head(s)>> \o Replace(Tail(s), old)

RECURSIVE Split(_, _)
\* str.split(sep) for a one-character sep: always at least one part,
\* empty parts are kept.
Split(s, sep) ==
    IF \A k \in 1..Len(s) : s[k] # sep THEN <<s>>
    ELSE LET k == CHOOSE i \in 1..Len(s) :
                      s[i] = sep /\ \A j \in 1..(i - 1) : s[j] # sep
         IN  <<SubSeq(s, 1, k - 1)>> \o Split(SubSeq(s, k + 1, Len(s)), sep)

RECURSIVE Join(_, _)
\* sep.join(parts)
Join(sep, parts) ==
    IF parts = <<>> THEN <<>>
    ELSE IF Len(parts) = 1 THEN parts[1]
    ELSE parts[1] \o sep \o Join(sep, Tail(parts))

\* item.get(key, default)
Get(item, key, default) == IF key \in DOMAIN item THEN item[key] ELSE default

\* ------------------------------------------------------------------------
\* String literals of the source
\* ------------------------------------------------------------------------
Scheme == <<"d", "o", "c", "s", ":", "/", "/">>
Slash == "/"
NL == <<"\n">>
CommaSpace == <<",", " ">>
HeadingMark == <<"#", " ">>
UrlHeader ==
    <<"#", "#", " ", "D", "o", "c", "u", "m", "e", "n", "t", "a", "t", "i",
      "o", "n", " ", "U", "R", "L">>
TagsHeader == <<"#", "#", " ", "T", "a", "g", "s">>
RelatedHeader ==
    <<"#", "#", " ", "R", "e", "l", "a", "t", "e", "d", " ", "T", "o", "p",
      "i", "c", "s">>
MimeType == "text/plain"

\* ------------------------------------------------------------------------
\* Source documents
\* ------------------------------------------------------------------------
\* The file on disk: its status, and what json.load makes of it when it
\* can be opened and parsed.
OnDisk(docs) == [status |-> "ok", content |-> docs]
Missing == [status |-> "missing", content |-> <<>>]
Unreadable == [status |-> "unreadable", content |-> <<>>]
Malformed == [status |-> "malformed", content |-> <<>>]
Unloadable == {Missing, Unreadable, Malformed}

\* The exception load_docs lets through for each of them.
LoadException(f) ==
    CASE f = Missing -> "FileNotFoundError"
      [] f = Unreadable -> "PermissionError"
      [] f = Malformed -> "JSONDecodeError"

LoadErrors == {"FileNotFoundError", "PermissionError", "JSONDecodeError"}

\* Category names and entries the documents of the model are built from.
\* A parsed document is the sequence of its (category, items) pairs in
\* document order, as the dict json.load returns iterates.
CategoryNames == {<<"a">>, <<"b">>}

EntryFull ==
    [id |-> <<"x">>, name |-> <<"P">>, description |-> <<"Q">>,
     url |-> <<"u", "1">>, tags |-> << <<"r">>, <<"s">> >>,
     related |-> << <<"k">> >>]
EntryEmptyLists ==
    [id |-> <<"x">>, name |-> <<"V">>, description |-> <<"W">>,
     url |-> <<"u", "2">>, tags |-> <<>>, related |-> <<>>]
EntryNoLists ==
    [id |-> <<"y">>, name |-> <<"G">>, description |-> <<"H">>,
     url |-> <<"u", "3">>]
EntrySlashId ==
    [id |-> <<"x", "/", "y">>, name |-> <<"J">>, description |-> <<"K">>,
     url |-> <<"u", "4">>, tags |-> << <<"r">> >>]
Entries == {EntryFull, EntryEmptyLists, EntryNoLists, EntrySlashId}

VARIABLES
    file,       \* docs-index.json: OnDisk(document), or a member of Unloadable
    resources,  \* the descriptors the client got from the current document
    response,   \* the handler call made last, with its outcome, or NoCall
    calls       \* SpecConc: the frame of each handler invocation in flight

vars == <<file, resources, response, calls>>

NoCall == [op |-> "none"]

\* ------------------------------------------------------------------------
\* Outcomes of a call: a returned value or a raised exception
\* ------------------------------------------------------------------------
Returns(v) == [ok |-> TRUE, value |-> v]
Raises(exc, msg) == [ok |-> FALSE, exc |-> exc, msg |-> msg]

\* ------------------------------------------------------------------------
\* load_docs
\* ------------------------------------------------------------------------
\* A load that answers from the docs of a frame still in flight, when there
\* is one, instead of reading the file: an index kept between calls.
load_docs_cached ==
    LET held == {p \in DOMAIN calls :
                    calls[p].op # "none" /\ calls[p].pc # "start"}
    IN  IF held # {}
        THEN calls[CHOOSE p \in held : \A q \in held : p <= q].docs
        ELSE IF file \in Unloadable THEN Raises(LoadException(file), <<>>)
        ELSE Returns(file.content)

\* open() and json.load() of docs-index.json: the parsed document, or the
\* exception of the document's state.  Nothing is kept between two loads.
load_docs ==
    IF file \in Unloadable THEN Raises(LoadException(file), <<>>)
    ELSE Returns(file.content)

\* ------------------------------------------------------------------------
\* list_resources
\* ------------------------------------------------------------------------
\* f"docs://{category}/{item['id']}"
ResourceUri(category, id) == Scheme \o category \o <<Slash>> \o id

\* Resource(uri=..., name=..., description=..., mimeType="text/plain")
Resource(category, item) ==
    [uri |-> ResourceUri(category, item.id), name |-> item.name,
     description |-> item.description, mimeType |-> MimeType]

\* for item in items: resources.append(Resource(...))
ItemResources(category, items) ==
    [k \in 1..Len(items) |-> Resource(category, items[k])]

RECURSIVE CategoryResourcesReversed(_)
\* The categories walked from the last to the first.
CategoryResourcesReversed(docs) ==
    IF docs = <<>> THEN <<>>
    ELSE CategoryResourcesReversed(Tail(docs))
             \o ItemResources(docs[1].category, docs[1].items)

RECURSIVE CategoryResources(_)
\* for category, items in docs.items(): ...
CategoryResources(docs) ==
    IF docs = <<>> THEN <<>>
    ELSE ItemResources(docs[1].category, docs[1].items)
             \o CategoryResources(Tail(docs))

\* A handler that meets a failed load with an empty list.
list_resources_swallowing(loaded) ==
    IF ~loaded.ok THEN Returns(<<>>) ELSE Returns(CategoryResources(loaded.value))

\* The handler: load, then build the whole list; an exception of the load
\* leaves the handler before anything is built.
list_resources(loaded) ==
    IF ~loaded.ok THEN loaded ELSE Returns(CategoryResources(loaded.value))

\* ------------------------------------------------------------------------
\* read_resource
\* ------------------------------------------------------------------------
\* parts = uri.replace("docs://", "").split("/")
ParseUri(uri) == Split(Replace(uri, Scheme), Slash)

\* category in docs
HasCategory(docs, category) ==
    \E k \in 1..Len(docs) : docs[k].category = category

RECURSIVE AllItems(_)
\* The entries of every category, one category after the other.
AllItems(docs) ==
    IF docs = <<>> THEN <<>> ELSE docs[1].items \o AllItems(Tail(docs))

\* A lookup that searches the entries of the whole document.
ItemsOfAnyCategory(docs, category) == AllItems(docs)

\* docs[category]
ItemsOf(docs, category) ==
    docs[CHOOSE k \in 1..Len(docs) : docs[k].category = category].items

\* A loop that keeps the last entry with the id instead of the first.
FindItemLast(items, doc_id) ==
    LET hits == {k \in 1..Len(items) : items[k].id = doc_id}
    IN  IF hits = {} THEN 0
        ELSE CHOOSE k \in hits : \A j \in hits : k >= j

\* for item in docs[category]: if item['id'] == doc_id: ...
\* The position of the entry the loop stops at, 0 when it runs to its end.
FindItem(items, doc_id) ==
    LET hits == {k \in 1..Len(items) : items[k].id = doc_id}
    IN  IF hits = {} THEN 0
        ELSE CHOOSE k \in hits : \A j \in hits : k <= j

\* The f-string returned for the entry found.
Content(item) ==
    HeadingMark \o item.name \o NL \o NL
    \o item.description \o NL \o NL
    \o UrlHeader \o NL \o item.url \o NL \o NL
    \o TagsHeader \o NL \o Join(CommaSpace, Get(item, "tags", <<>>)) \o NL \o NL
    \o RelatedHeader \o NL \o Join(CommaSpace, Get(item, "related", <<>>)) \o NL

\* A handler without the "category not in docs" test: an unknown category
\* is searched as one without entries.
ReadLoadedNoCategoryTest(docs, uri) ==
    LET parts == ParseUri(uri)
    IN  IF Len(parts) # 2
        THEN Raises("ValueError", <<"Invalid URI format: ", uri>>)
        ELSE LET category == parts[1]
                 doc_id == parts[2]
                 items == IF HasCategory(docs, category)
                          THEN ItemsOf(docs, category) ELSE <<>>
                 k == FindItem(items, doc_id)
             IN  IF k # 0 THEN Returns(Content(items[k]))
                 ELSE Raises("ValueError",
                             <<"Document not found: ", doc_id, " in ", category>>)

\* The handler after the load.
ReadLoaded(docs, uri) ==
    LET parts == ParseUri(uri)
    IN  IF Len(parts) # 2
        THEN Raises("ValueError", <<"Invalid URI format: ", uri>>)
        ELSE LET category == parts[1]
                 doc_id == parts[2]
             IN  IF ~HasCategory(docs, category)
                 THEN Raises("ValueError", <<"Category not found: ", category>>)
                 ELSE LET items == ItemsOf(docs, category)
                          k == FindItem(items, doc_id)
                      IN  IF k # 0 THEN Returns(Content(items[k]))
                          ELSE Raises("ValueError",
                                      <<"Document not found: ", doc_id,
                                        " in ", category>>)

\* The handler: the load comes first, so its exception wins over every
\* error of the uri.
read_resource(loaded, uri) ==
    IF ~loaded.ok THEN loaded ELSE ReadLoaded(loaded.value, uri)

\* ------------------------------------------------------------------------
\* URIs the client asks for
\* ------------------------------------------------------------------------
UriCategories == {<<"a">>, <<"b">>, <<>>}
UriIds == {<<"x">>, <<"y">>, <<>>}
OddUris ==
    { Scheme \o <<"a">>,                               \* docs://a
      Scheme \o <<"a", "/", "x", "/", "y">>,           \* docs://a/x/y
      Scheme \o Scheme \o <<"a", "/", "x">>,           \* docs://docs://a/x
      <<"a", "/", "x">>,                               \* a/x
      <<"b">> \o Scheme \o <<"/", "x">> }              \* bdocs:///x
RequestUris ==
    {ResourceUri(c, i) : c \in UriCategories, i \in UriIds} \cup OddUris

\* ------------------------------------------------------------------------
\* One call at a time (Spec)
\* ------------------------------------------------------------------------
Init ==
    /\ file = OnDisk(<<>>)
    /\ resources = <<>>
    /\ response = NoCall
    /\ calls = [p \in 1..NumCalls |-> NoCall]

\* The runtime dispatches a resources/list request to list_resources.
ListResources ==
    /\ response = NoCall
    /\ LET result == list_resources(load_docs)
       IN  /\ response' = [op |-> "list", uri |-> <<>>, result |-> result]
           /\ resources' = IF result.ok THEN result.value ELSE resources
    /\ UNCHANGED <<file, calls>>

\* The runtime dispatches a resources/read request to read_resource; the
\* client asks for a uri of its own or for one it was listed.
ReadResource ==
    /\ response = NoCall
    /\ \E uri \in RequestUris \cup {resources[k].uri : k \in 1..Len(resources)} :
           response' = [op |-> "read", uri |-> uri,
                        result |-> read_resource(load_docs, uri)]
    /\ UNCHANGED <<file, resources, calls>>

\* The runtime sends the outcome to the client; the call is over.
Respond ==
    /\ response # NoCall
    /\ response' = NoCall
    /\ UNCHANGED <<file, resources, calls>>

\* The document is edited outside the server, between two calls: a
\* category is added or removed, an entry is added or removed, or the
\* document becomes unloadable or is written anew.
AddCategory ==
    /\ response = NoCall
    /\ file \notin Unloadable
    /\ \E c \in CategoryNames :
           /\ ~HasCategory(file.content, c)
           /\ file' = OnDisk(Append(file.content, [category |-> c, items |-> <<>>]))
    /\ resources' = <<>>
    /\ UNCHANGED <<response, calls>>

RemoveCategory ==
    /\ response = NoCall
    /\ file \notin Unloadable
    /\ \E k \in 1..Len(file.content) :
           file' = OnDisk(SubSeq(file.content, 1, k - 1)
                              \o SubSeq(file.content, k + 1, Len(file.content)))
    /\ resources' = <<>>
    /\ UNCHANGED <<response, calls>>

AddEntry ==
    /\ response = NoCall
    /\ file \notin Unloadable
    /\ \E k \in 1..Len(file.content), e \in Entries :
           /\ Len(file.content[k].items) < MaxItems
           /\ \A j \in 1..Len(file.content[k].items) : file.content[k].items[j] # e
           /\ file' = [file EXCEPT !.content[k].items = Append(@, e)]
    /\ resources' = <<>>
    /\ UNCHANGED <<response, calls>>

RemoveEntry ==
    /\ response = NoCall
    /\ file \notin Unloadable
    /\ \E k \in 1..Len(file.content) : \E j \in 1..Len(file.content[k].items) :
           file' = [file EXCEPT !.content[k].items =
                        SubSeq(@, 1, j - 1) \o SubSeq(@, j + 1, Len(@))]
    /\ resources' = <<>>
    /\ UNCHANGED <<response, calls>>

BreakFile ==
    /\ response = NoCall
    /\ file \notin Unloadable
    /\ file' \in Unloadable
    /\ resources' = <<>>
    /\ UNCHANGED <<response, calls>>

RestoreFile ==
    /\ response = NoCall
    /\ file \in Unloadable
    /\ file' = OnDisk(<<>>)
    /\ resources' = <<>>
    /\ UNCHANGED <<response, calls>>

Next ==
    \/ ListResources
    \/ ReadResource
    \/ Respond
    \/ AddCategory
    \/ RemoveCategory
    \/ AddEntry
    \/ RemoveEntry
    \/ BreakFile
    \/ RestoreFile

Spec == Init /\ [][Next]_vars

\* ------------------------------------------------------------------------
\* Calls in flight together (SpecConc)
\* ------------------------------------------------------------------------
\* The runtime may start a handler while another has not returned.  Each
\* invocation has its own frame: op, uri, and the local docs once
\* load_docs has returned or raised.  A frame is gone when the call returns.
\* The handlers have no await of their own, so under asyncio each runs from
\* its load to its return without another handler in between; the steps
\* here are finer (the load, then the rest), which covers that schedule and
\* those of a runtime that runs handlers on several threads.
\* DocTwo is DocOne with the entry y added in front of the entry x.
DocOne == <<[category |-> <<"a">>, items |-> <<EntryFull>>]>>
DocTwo == <<[category |-> <<"a">>, items |-> <<EntryNoLists, EntryFull>>]>>
ConcFiles == {OnDisk(DocOne), OnDisk(DocTwo), Missing}
ConcUris == {ResourceUri(<<"a">>, <<"x">>), ResourceUri(<<"a">>, <<"y">>)}
Calls == 1..NumCalls

InitConc ==
    /\ file = OnDisk(DocOne)
    /\ resources = <<>>
    /\ response = NoCall
    /\ calls = [p \in Calls |-> NoCall]

\* The file read again where the frame's docs is used.
ReloadedDocs(p) == load_docs

\* The docs of the first frame that has loaded, used by every frame: one
\* index shared by the calls in flight.
SharedDocs(p) ==
    LET held == {q \in Calls : calls[q].op # "none" /\ calls[q].pc # "start"}
    IN  calls[CHOOSE q \in held : \A r \in held : q <= r].docs

\* The local variable docs of the frame p.
FrameDocs(p) == calls[p].docs

\* The body of the handler of frame p, from its local docs on.
HandlerResult(p) ==
    IF calls[p].op = "list" THEN list_resources(FrameDocs(p))
    ELSE read_resource(FrameDocs(p), calls[p].uri)

InvokeList(p) ==
    /\ calls[p] = NoCall
    /\ calls' = [calls EXCEPT ![p] = [op |-> "list", uri |-> <<>>, pc |-> "start"]]
    /\ UNCHANGED <<file, resources, response>>

InvokeRead(p) ==
    /\ calls[p] = NoCall
    /\ \E uri \in ConcUris :
           calls' = [calls EXCEPT ![p] = [op |-> "read", uri |-> uri, pc |-> "start"]]
    /\ UNCHANGED <<file, resources, response>>

\* docs = load_docs()
Load(p) ==
    /\ calls[p].op # "none"
    /\ calls[p].pc = "start"
    /\ calls' = [calls EXCEPT ![p] =
                     [op |-> calls[p].op, uri |-> calls[p].uri,
                      pc |-> "loaded", docs |-> load_docs]]
    /\ UNCHANGED <<file, resources, response>>

\* The rest of the handler, up to its return or raise.
Finish(p) ==
    /\ calls[p].op # "none"
    /\ calls[p].pc = "loaded"
    /\ calls' = [calls EXCEPT ![p] =
                     [op |-> calls[p].op, uri |-> calls[p].uri,
                      pc |-> "done", docs |-> calls[p].docs,
                      result |-> HandlerResult(p)]]
    /\ UNCHANGED <<file, resources, response>>

\* The runtime sends the outcome; the frame is discarded.
Return(p) ==
    /\ calls[p].op # "none"
    /\ calls[p].pc = "done"
    /\ calls' = [calls EXCEPT ![p] = NoCall]
    /\ UNCHANGED <<file, resources, response>>

\* The document is replaced outside the server, at any moment.
WriteFile ==
    /\ file' \in ConcFiles \ {file}
    /\ UNCHANGED <<resources, response, calls>>

NextConc ==
    \/ \E p \in Calls : InvokeList(p)
    \/ \E p \in Calls : InvokeRead(p)
    \/ \E p \in Calls : Load(p)
    \/ \E p \in Calls : Finish(p)
    \/ \E p \in Calls : Return(p)
    \/ WriteFile

SpecConc == InitConc /\ [][NextConc]_vars

\* ========================================================================
\* Properties
\* ========================================================================
\* Vocabulary of the properties.  The file does not change between a call
\* of Spec and its Respond, so in Spec a response is always the outcome of
\* a call against the document now on disk.
Loadable == file.status = "ok"
Document == file.content
Listed == response.op = "list"
Read == response.op = "read"

\* s occurs in text as a contiguous run of characters.
Contains(text, s) ==
    \E k \in 0..(Len(text) - Len(s)) : SubSeq(text, k + 1, k + Len(s)) = s

NoSlash(s) == \A k \in 1..Len(s) : s[k] # "/"

\* The ways to cut s in two at one of its characters: what is before the
\* character, and what is after it.
Cuts(s) == {<<SubSeq(s, 1, k - 1), SubSeq(s, k + 1, Len(s))>> : k \in 1..Len(s)}

\* The ways to read uri as "docs://" + c + "/" + i, as pairs <<c, i>>.
Readings(uri) ==
    IF Len(uri) >= 7 /\ SubSeq(uri, 1, 7) = <<"d", "o", "c", "s", ":", "/", "/">>
    THEN Cuts(SubSeq(uri, 8, Len(uri)))
    ELSE {}

\* The readings <<c, i>> of uri as docs://<c>/<i> with both segments
\* non-empty and free of "/" (at most one).
Shapes(uri) ==
    {r \in Readings(uri) :
        /\ r[1] # <<>> /\ r[2] # <<>>
        /\ NoSlash(r[1]) /\ NoSlash(r[2])
        /\ uri = <<"d", "o", "c", "s", ":", "/", "/">> \o r[1] \o <<"/">> \o r[2]}

\* The categories of the document that are named c (at most one: the
\* document is a mapping).
Keyed(c) == {k \in 1..Len(Document) : Document[k].category = c}

\* Within every category the ids are pairwise different.
UniqueIds ==
    \A k \in 1..Len(Document) :
        \A m, n \in 1..Len(Document[k].items) :
            Document[k].items[m].id = Document[k].items[n].id => m = n

RECURSIVE EntriesBefore(_)
\* The number of entries in the categories before the k-th.
EntriesBefore(k) ==
    IF k <= 1 THEN 0
    ELSE EntriesBefore(k - 1) + Len(Document[k - 1].items)

\* The lines of a text: the runs of characters between line feeds.
Lines(text) == Split(text, "\n")

RECURSIVE Listing(_)
\* The strings of a list written one after the other with ", " between.
Listing(strings) ==
    IF strings = <<>> THEN <<>>
    ELSE IF Len(strings) = 1 THEN strings[1]
    ELSE Listing(SubSeq(strings, 1, Len(strings) - 1))
             \o <<",", " ">> \o strings[Len(strings)]

\* ------------------------------------------------------------------------
\* C1: for every descriptor list_resources returned from a well-formed
\* document (unique ids within a category; names and ids any strings),
\* read_resource of the descriptor's uri on the same document returns
\* text that contains the descriptor's name and description.
\* ------------------------------------------------------------------------
ListedUriReadsBack ==
    (Read /\ Loadable /\ UniqueIds) =>
        \A k \in 1..Len(resources) :
            resources[k].uri = response.uri =>
                /\ response.result.ok
                /\ Contains(response.result.value, resources[k].name)
                /\ Contains(response.result.value, resources[k].description)

\* ------------------------------------------------------------------------
\* C2: read_resource strips only the leading "docs://", and a uri whose
\* remainder is not exactly two non-empty segments fails with the
\* invalid-URI error carrying the uri, whatever the index contains.
\* ------------------------------------------------------------------------
Remainder(uri) ==
    IF Len(uri) >= 7 /\ SubSeq(uri, 1, 7) = <<"d", "o", "c", "s", ":", "/", "/">>
    THEN SubSeq(uri, 8, Len(uri))
    ELSE uri

TwoSegments(rest) ==
    \E r \in Cuts(rest) :
        /\ r[1] # <<>> /\ r[2] # <<>>
        /\ NoSlash(r[1]) /\ NoSlash(r[2])
        /\ rest = r[1] \o <<"/">> \o r[2]

MalformedUriIsInvalid ==
    (Read /\ Loadable /\ ~TwoSegments(Remainder(response.uri))) =>
        response.result = Raises("ValueError",
                                 <<"Invalid URI format: ", response.uri>>)

\* ------------------------------------------------------------------------
\* C3: list_resources returns one descriptor per entry, in the document's
\* category order and within a category in entry order, each with
\* uri = "docs://" + category + "/" + id, the entry's name and description,
\* and mimeType "text/plain".
\* ------------------------------------------------------------------------
ListIsOnePerEntryInOrder ==
    (Listed /\ Loadable) =>
        /\ response.result.ok
        /\ Len(response.result.value) = EntriesBefore(Len(Document) + 1)
        /\ \A k \in 1..Len(Document) :
               \A j \in 1..Len(Document[k].items) :
                   response.result.value[EntriesBefore(k) + j] =
                       [uri |-> <<"d", "o", "c", "s", ":", "/", "/">>
                                    \o Document[k].category \o <<"/">>
                                    \o Document[k].items[j].id,
                        name |-> Document[k].items[j].name,
                        description |-> Document[k].items[j].description,
                        mimeType |-> "text/plain"]

ListWitness ==
    /\ Listed /\ Loadable
    /\ Len(Document) = 2
    /\ Len(Document[1].items) = 2 /\ Len(Document[2].items) = 1
    /\ Len(response.result.value) = 3

\* ------------------------------------------------------------------------
\* C4: a uri of the shape docs://<category>/<id> whose category is not a
\* key of the index fails with the category-not-found error carrying the
\* category; it is never content and never document-not-found.
\* ------------------------------------------------------------------------
UnknownCategoryIsReported ==
    (Read /\ Loadable) =>
        \A r \in Shapes(response.uri) :
            Keyed(r[1]) = {} =>
                response.result = Raises("ValueError",
                                         <<"Category not found: ", r[1]>>)

UnknownCategoryWitness ==
    /\ Read /\ Loadable
    /\ response.uri = <<"d", "o", "c", "s", ":", "/", "/", "b", "/", "x">>
    /\ Keyed(<<"b">>) = {}
    /\ Keyed(<<"a">>) # {}
    /\ \E k \in Keyed(<<"a">>) : \E j \in 1..Len(Document[k].items) :
           Document[k].items[j].id = <<"x">>
    /\ ~response.result.ok

\* ------------------------------------------------------------------------
\* C5: a uri of the shape docs://<category>/<id> whose category is a key
\* but whose id is the id of no entry of that category fails with the
\* document-not-found error carrying the id and the category, also when
\* another category has an entry with that id.
\* ------------------------------------------------------------------------
UnknownIdIsReported ==
    (Read /\ Loadable) =>
        \A r \in Shapes(response.uri) :
            \A k \in Keyed(r[1]) :
                (\A j \in 1..Len(Document[k].items) :
                     Document[k].items[j].id # r[2]) =>
                    response.result = Raises("ValueError",
                                             <<"Document not found: ", r[2],
                                               " in ", r[1]>>)

UnknownIdWitness ==
    /\ Read /\ Loadable
    /\ response.uri = <<"d", "o", "c", "s", ":", "/", "/", "b", "/", "x">>
    /\ \E k \in Keyed(<<"b">>) :
           /\ Document[k].items # <<>>
           /\ \A j \in 1..Len(Document[k].items) :
                  Document[k].items[j].id # <<"x">>
    /\ \E k \in Keyed(<<"a">>) : \E j \in 1..Len(Document[k].items) :
           Document[k].items[j].id = <<"x">>
    /\ ~response.result.ok

\* ------------------------------------------------------------------------
\* C6: the text of a successful read of docs://<category>/<id> is built
\* from the first entry of the category whose id is <id>: the heading with
\* the name, the description, the "## Documentation URL" section with the
\* url, the "## Tags" section with the tags joined by ", ", the
\* "## Related Topics" section with the related joined by ", ", in this
\* order; absent or empty tags or related leave the header with an empty
\* body.
\* ------------------------------------------------------------------------
TextOf(entry, text) ==
    LET line == Lines(text)
        tags == IF "tags" \in DOMAIN entry THEN entry.tags ELSE <<>>
        related == IF "related" \in DOMAIN entry THEN entry.related ELSE <<>>
    IN  /\ Len(line) = 13
        /\ line[1] = <<"#", " ">> \o entry.name
        /\ line[2] = <<>>
        /\ line[3] = entry.description
        /\ line[4] = <<>>
        /\ line[5] = UrlHeader
        /\ line[6] = entry.url
        /\ line[7] = <<>>
        /\ line[8] = TagsHeader
        /\ line[9] = Listing(tags)
        /\ line[10] = <<>>
        /\ line[11] = RelatedHeader
        /\ line[12] = Listing(related)
        /\ line[13] = <<>>
        /\ (tags = <<>> => line[9] = <<>>)
        /\ (related = <<>> => line[12] = <<>>)

ContentIsFirstMatchFormatted ==
    (Read /\ Loadable /\ response.result.ok) =>
        \A r \in Shapes(response.uri) :
            \E k \in Keyed(r[1]) : \E j \in 1..Len(Document[k].items) :
                /\ Document[k].items[j].id = r[2]
                /\ \A m \in 1..(j - 1) : Document[k].items[m].id # r[2]
                /\ TextOf(Document[k].items[j], response.result.value)

ContentWitness ==
    /\ Read /\ Loadable /\ response.result.ok
    /\ response.uri = <<"d", "o", "c", "s", ":", "/", "/", "a", "/", "x">>
    /\ \E k \in Keyed(<<"a">>) :
           /\ Len(Document[k].items) = 2
           /\ Document[k].items[1] = EntryEmptyLists
           /\ Document[k].items[2] = EntryFull

Started(p) == calls[p].op # "none" /\ calls[p].pc = "start"
Loaded(p) == calls[p].op # "none" /\ calls[p].pc = "loaded"
Done(p) == calls[p].op # "none" /\ calls[p].pc = "done"

\* What the handler of a call returns when it runs with no other call in
\* flight, as in Spec, on the index it loaded.
Alone(frame) ==
    IF frame.op = "list" THEN list_resources(frame.docs)
    ELSE read_resource(frame.docs, frame.uri)

CallsAreIsolated ==
    [][\A p \in Calls :
           calls'[p] # calls[p] =>
               /\ file' = file
               /\ \A q \in Calls \ {p} : calls'[q] = calls[q]
               /\ (Started(p) =>
                      calls'[p].docs =
                          IF file.status = "ok"
                          THEN [ok |-> TRUE, value |-> file.content]
                          ELSE [ok |-> FALSE, exc |-> LoadException(file),
                                msg |-> <<>>])
               /\ (Loaded(p) =>
                      /\ calls'[p].docs = calls[p].docs
                      /\ calls'[p].result = Alone(calls[p]))]_vars

IsolationWitness ==
    /\ Done(1) /\ Done(2)
    /\ calls[1].op = "read" /\ calls[2].op = "read"
    /\ calls[1].uri = calls[2].uri
    /\ calls[1].docs = Returns(DocOne) /\ calls[2].docs = Returns(DocTwo)
    /\ ~calls[1].result.ok /\ calls[2].result.ok

\* ------------------------------------------------------------------------
\* C9: nothing is stale: every call loads the file as it is when the call
\* loads, also when the file was changed since the call before, and
\* answers from what it loaded: the entries listed are those of that
\* document, an entry of it is readable, and no other entry is; when a
\* call returns its index is gone.
\* ------------------------------------------------------------------------
AnswersFrom(frame, result) ==
    LET docs == frame.docs.value
    IN  /\ frame.op = "list" =>
               /\ result.ok
               /\ {result.value[k].uri : k \in 1..Len(result.value)} =
                      UNION {{<<"d", "o", "c", "s", ":", "/", "/">>
                                  \o docs[k].category \o <<"/">>
                                  \o docs[k].items[j].id :
                                  j \in 1..Len(docs[k].items)} :
                             k \in 1..Len(docs)}
        /\ frame.op = "read" =>
               \A r \in Shapes(frame.uri) :
                   result.ok <=>
                       \E k \in 1..Len(docs) :
                           /\ docs[k].category = r[1]
                           /\ \E j \in 1..Len(docs[k].items) :
                                  /\ docs[k].items[j].id = r[2]
                                  /\ Contains(result.value, docs[k].items[j].name)

NothingStale ==
    [][\A p \in Calls :
           /\ (Started(p) /\ calls'[p] # calls[p]) =>
                  /\ file.status = "ok" => calls'[p].docs = Returns(file.content)
                  /\ file.status # "ok" => ~calls'[p].docs.ok
           /\ (Loaded(p) /\ calls'[p] # calls[p] /\ calls[p].docs.ok) =>
                  AnswersFrom(calls[p], calls'[p].result)
           /\ (Done(p) /\ calls'[p] # calls[p]) => calls'[p] = NoCall]_vars

FreshWitness ==
    /\ file = OnDisk(DocTwo)
    /\ Done(1) /\ Done(2)
    /\ calls[1].op = "list" /\ calls[2].op = "read"
    /\ calls[1].docs = Returns(DocTwo) /\ calls[2].docs = Returns(DocTwo)
    /\ Len(calls[1].result.value) = 2
    /\ calls[2].uri = <<"d", "o", "c", "s", ":", "/", "/", "a", "/", "y">>
    /\ calls[2].result.ok

====
